---- MODULE Spec2Model ----
\* A model of pixyz's auto-regressive losses (pixyz/losses/autoregressive.py)
\* and of the construction of a mixture model
\* (pixyz/distributions/mixture_distributions.py).
\*
\* Values.  A tensor is a record [d |-> rank, v |-> its entries]: a scalar
\* (d = 0) has one entry, a series (d = 1) one entry per time step.  A state
\* dict is a function from a set of variable names to tensors.  An absent
\* Python list (None) is the one-element sequence None; an absent sub-loss is
\* the loss id "none".
EXTENDS Integers, Sequences, FiniteSets, TLC

VARIABLES
    ctor,   \* the arguments of the AR-loss constructor call, and how it ended
    obj,    \* the AR-loss object the constructor produced (its attributes)
    arg0,   \* the caller's input dict as it was when estimate was called
    arg,    \* the caller's input dict as it is now (the same Python object)
    res,    \* how the last estimate call ended
    mix     \* the MixtureModel constructor call: its arguments and its outcome

vars == <<ctor, obj, arg0, arg, res, mix>>

\* ---------------------------------------------------------------- bounds
MaxIter == 3        \* max_iter ranges over -1 .. MaxIter
MaxSeriesLen == 3   \* a series input has 0 .. MaxSeriesLen time steps
MaxK == 2           \* a mixture has 0 .. MaxK components

\* ---------------------------------------------------------------- values
None == <<"None">>
EmptyDict == [k \in {} |-> 0]

Scalar(n) == [d |-> 0, v |-> <<n>>]

\* The working state x is a dict, except after the default step_fn handed
\* back the loop index: the integer t is the state IntState(t), which has no
\* entries and no update method.
IntState(t) == [k \in {"#int"} |-> Scalar(t)]
IsInt(x) == "#int" \in DOMAIN x
Series(n) == [d |-> 1, v |-> [i \in 1..n |-> i]]

RECURSIVE SumSeq(_)
SumSeq(s) == IF s = <<>> THEN 0 ELSE Head(s) + SumSeq(Tail(s))

RECURSIVE Contains(_, _)
Contains(s, e) == IF s = <<>> THEN FALSE
                  ELSE IF Head(s) = e THEN TRUE ELSE Contains(Tail(s), e)

Range(s) == {s[i] : i \in 1..Len(s)}

\* dict.update(other): the entries of other replace or extend those of d.
Update(d, other) ==
    [k \in (DOMAIN d) \cup (DOMAIN other) |->
        IF k \in DOMAIN other THEN other[k] ELSE d[k]]

\* ------------------------------------------------- the Loss collaborator
\* The sub-losses a caller can pass: "none" is an absent loss (None).
StepLosses == {"none", "one", "val_x", "val_h"}
LastLosses == {"none", "two", "val_x", "val_h"}

\* loss.input_var of a sub-loss.
LossInputVar(l) ==
    CASE l = "one"   -> <<"h">>
      [] l = "two"   -> <<"x", "h">>
      [] l = "val_x" -> <<"x">>
      [] l = "val_h" -> <<"h", "z">>
      [] OTHER       -> <<>>

\* What a tensor is worth to the "val" losses: the sum of its entries, and
\* 100 more for a series, so that a series never counts like one of its slices.
Worth(t) == SumSeq(t.v) + 100 * t.d

\* loss.estimate(x) of a present sub-loss.
LossEstimate(l, x) ==
    CASE l = "one"   -> 1
      [] l = "two"   -> 2
      [] l = "val_x" -> IF "x" \in DOMAIN x THEN Worth(x["x"]) ELSE 0
      [] l = "val_h" -> IF "h" \in DOMAIN x THEN Worth(x["h"]) ELSE 0
      [] OTHER       -> 0

\* The "val" losses read an entry of the dict they are given: on a state that
\* is not a dict they raise.
LossRaises(l, x) == l \in {"val_x", "val_h"} /\ IsInt(x)

\* Loss.estimate, the base pre-processing hook: it hands back the caller's
\* own dict, so the subclass works on the very object the caller holds.
BaseEstimate(x) == x

\* utils.get_dict_values(dicts, keys, return_dict=True): the entries of the
\* dict under those of the keys it has.
get_dict_values(dicts, keys) ==
    [k \in (DOMAIN dicts) \cap Range(keys) |-> dicts[k]]

\* ------------------------------------------------------ the step functions
\* The transitions an object can have: "default" is the constructors' own
\* default, lambda x: x, of one parameter; the others are callables a caller
\* passes, which take the index and the state, return a fresh dict and leave
\* their argument alone.
StepFns == {"default", "id", "acc", "clobber"}

HOf(x) == IF "h" \in DOMAIN x THEN x["h"].v[1] ELSE 0

StepFn(f, i, x) ==
    CASE f = "acc"     -> Update(x, [k \in {"h"} |-> Scalar(2 * HOf(x) + i + 1)])
      [] f = "clobber" -> Update(x, [k \in {"x"} |-> Scalar(7)])
      [] OTHER         -> x

\* self.step_fn(i, x), the call of ARDRAWLoss.estimate: two positional
\* arguments, which the default lambda x: x does not take.
DrawCall(f, i, x) ==
    IF f = "default" THEN [err |-> "TypeError", x |-> x]
    ELSE [err |-> "", x |-> StepFn(f, i, x)]

\* self.step_fn(t, **x), the call of ARSeriesLoss.estimate: the default
\* lambda x: x binds t to x, so any keyword is one argument too many, and
\* without keywords it returns t.
SeriesCall(f, t, x) ==
    IF f = "default"
    THEN IF DOMAIN x # {} THEN [err |-> "TypeError", x |-> x]
         ELSE [err |-> "", x |-> IntState(t)]
    ELSE [err |-> "", x |-> StepFn(f, t, x)]

\* ------------------------------------------------------- the constructors
\* sorted(set(l), key=l.index): l without its repeats, each name where it
\* first stood.
RECURSIVE Dedup(_)
Dedup(l) ==
    IF l = <<>> THEN <<>>
    ELSE LET front == Dedup(SubSeq(l, 1, Len(l) - 1))
             last  == l[Len(l)]
         IN IF Contains(front, last) THEN front ELSE Append(front, last)

\* The input_var ARLoss.__init__ derives from the sub-losses.
DerivedInputVar(step_loss, last_loss) ==
    Dedup((IF last_loss # "none" THEN LossInputVar(last_loss) ELSE <<>>)
          \o (IF step_loss # "none" THEN LossInputVar(step_loss) ELSE <<>>))

\* ARLoss.__init__: the attributes it sets.
ARLossInit(step_loss, last_loss, step_fn, max_iter, return_params, input_var, initial_var) ==
    [cls            |-> "ARLoss",
     last_loss      |-> last_loss,
     step_loss      |-> step_loss,
     max_iter       |-> max_iter,
     step_fn        |-> step_fn,
     initial_var    |-> initial_var,
     return_params  |-> return_params,
     input_var      |-> IF input_var # None THEN input_var
                        ELSE DerivedInputVar(step_loss, last_loss),
     series_var     |-> None,
     non_series_var |-> {}]

\* ARDRAWLoss.__init__: it hands its arguments to ARLoss.__init__ by
\* position, initial_var before input_var.
ARDRAWLossInit(step_loss, last_loss, step_fn, max_iter, return_params, initial_var, input_var) ==
    [ARLossInit(step_loss, last_loss, step_fn, max_iter, return_params,
                initial_var, input_var)
        EXCEPT !.cls = "ARDRAWLoss"]

\* ARSeriesLoss.__init__: set(self.series_var) raises on an absent
\* series_var, and then there is no object.
ARSeriesLossInit(step_loss, last_loss, step_fn, max_iter, return_params, series_var, input_var) ==
    LET base == ARLossInit(step_loss, last_loss, step_fn, max_iter,
                           return_params, input_var, None)
    IN IF series_var = None
       THEN [err |-> "TypeError", obj |-> base]
       ELSE [err |-> "",
             obj |-> [base EXCEPT
                        !.cls = "ARSeriesLoss",
                        !.series_var = series_var,
                        !.non_series_var =
                            Range(base.input_var) \ Range(series_var)]]

\* ------------------------------------------------- ARDRAWLoss.estimate
\* The running state of an estimate call: the working dict x, the caller's
\* dict inp, whether x is still the caller's own object (alias), the running
\* sum, the calls made to the collaborators so far, and the error raised.
Call(op, i, x) == [op |-> op, i |-> i, x |-> x]

Start(x0) ==
    [x |-> BaseEstimate(x0), inp |-> x0, alias |-> TRUE,
     sum |-> 0, log |-> <<>>, err |-> ""]

\* One pass of the loop of ARDRAWLoss.estimate.
DrawStep(self, i, st) ==
    IF self.step_loss = "none"
    THEN [st EXCEPT !.err = "AttributeError"]
    ELSE LET summed == [st EXCEPT
                          !.sum = st.sum + LossEstimate(self.step_loss, st.x),
                          !.log = Append(st.log, Call("step_loss", i, st.x))]
             called == DrawCall(self.step_fn, i, st.x)
         IN IF called.err # ""
            THEN [summed EXCEPT !.err = called.err]
            ELSE [summed EXCEPT
                    !.x     = called.x,
                    !.alias = FALSE,
                    !.log   = Append(summed.log, Call("step_fn", i, st.x))]

\* for i in range(self.max_iter)
RECURSIVE DrawLoop(_, _, _)
DrawLoop(self, i, st) ==
    IF i >= self.max_iter \/ st.err # "" THEN st
    ELSE DrawLoop(self, i + 1, DrawStep(self, i, st))

Raised(st) ==
    [status |-> "error", err |-> st.err, loss |-> 0, pair |-> FALSE,
     state |-> EmptyDict, log |-> st.log, inp |-> st.inp]

Returned(self, st, loss, log) ==
    [status |-> "ok", err |-> "", loss |-> loss,
     pair |-> self.return_params,
     state |-> IF self.return_params THEN st.x ELSE EmptyDict,
     log |-> log, inp |-> st.inp]

\* The lines of ARDRAWLoss.estimate after the loop.
DrawFinish(self, st) ==
    IF st.err # "" THEN Raised(st)
    ELSE IF self.last_loss = "none"
    THEN Raised([st EXCEPT !.err = "AttributeError"])
    ELSE Returned(self, st,
                  st.sum + LossEstimate(self.last_loss, st.x),
                  Append(st.log, Call("last_loss", -1, st.x)))

ARDRAWLossEstimate(self, x0) ==
    DrawFinish(self, DrawLoop(self, 0, Start(x0)))

\* ------------------------------------------------ ARSeriesLoss.estimate
\* v[t] exists for every series entry: the entry is a series and has an
\* entry at index t.
CanSlice(t, x) ==
    \A k \in DOMAIN x : x[k].d >= 1 /\ 0 <= t /\ t < Len(x[k].v)

\* ARSeriesLoss.slice_step_from_inputs: {k: v[t] for k, v in x.items()}.
slice_step_from_inputs(t, x) ==
    [k \in DOMAIN x |-> Scalar(x[k].v[t + 1])]

\* x.update(other) on the working dict: the caller's dict changes with it
\* as long as the working dict is the caller's own object.
UpdateX(st, other) ==
    [st EXCEPT !.x   = Update(st.x, other),
               !.inp = IF st.alias THEN Update(st.x, other) ELSE st.inp]

\* One pass of the loop of ARSeriesLoss.estimate.  x.update is looked up
\* before its argument is computed: a state that is not a dict has none.
SeriesStep(self, t, st, series_x) ==
    IF IsInt(st.x)
    THEN [st EXCEPT !.err = "AttributeError"]
    ELSE IF ~CanSlice(t, series_x)
    THEN [st EXCEPT !.err = "IndexError"]
    ELSE LET sliced == UpdateX(st, slice_step_from_inputs(t, series_x))
             called == SeriesCall(self.step_fn, t, sliced.x)
             moved  == [sliced EXCEPT
                          !.x     = called.x,
                          !.alias = FALSE,
                          !.log   = Append(sliced.log,
                                           Call("step_fn", t, sliced.x))]
         IN IF called.err # ""
            THEN [sliced EXCEPT !.err = called.err]
            ELSE IF self.step_loss = "none"
            THEN [moved EXCEPT !.err = "AttributeError"]
            ELSE IF LossRaises(self.step_loss, moved.x)
            THEN [moved EXCEPT !.err = "TypeError"]
            ELSE [moved EXCEPT
                    !.sum = moved.sum + LossEstimate(self.step_loss, moved.x),
                    !.log = Append(moved.log,
                                   Call("step_loss", t, moved.x))]

\* for t in range(self.max_iter)
RECURSIVE SeriesLoop(_, _, _, _)
SeriesLoop(self, t, st, series_x) ==
    IF t >= self.max_iter \/ st.err # "" THEN st
    ELSE SeriesLoop(self, t + 1, SeriesStep(self, t, st, series_x), series_x)

\* if self.last_loss is not None: the slice at index 0, then the last loss.
SeriesLast(self, st, series_x) ==
    IF st.err # "" \/ self.last_loss = "none" THEN st
    ELSE IF IsInt(st.x)
    THEN [st EXCEPT !.err = "AttributeError"]
    ELSE IF ~CanSlice(0, series_x)
    THEN [st EXCEPT !.err = "IndexError"]
    ELSE LET sliced == UpdateX(st, slice_step_from_inputs(0, series_x))
         IN [sliced EXCEPT
               !.sum = sliced.sum + LossEstimate(self.last_loss, sliced.x),
               !.log = Append(sliced.log, Call("last_loss", -1, sliced.x))]

\* SeriesFinish without the series merged back into the state returned.
SeriesFinishLastSlice(self, st, series_x) ==
    IF st.err # "" THEN Raised(st)
    ELSE Returned(self, st, st.sum, st.log)

\* if self.return_params: x.update(series_x); return loss, x.
SeriesFinish(self, st, series_x) ==
    IF st.err # "" THEN Raised(st)
    ELSE IF self.return_params /\ IsInt(st.x)
    THEN Raised([st EXCEPT !.err = "AttributeError"])
    ELSE IF self.return_params
    THEN LET merged == UpdateX(st, series_x)
         IN Returned(self, merged, merged.sum, merged.log)
    ELSE Returned(self, st, st.sum, st.log)

ARSeriesLossEstimate(self, x0) ==
    LET st0      == Start(x0)
        series_x == get_dict_values(st0.x, self.series_var)
    IN SeriesFinish(self,
                    SeriesLast(self, SeriesLoop(self, 0, st0, series_x),
                               series_x),
                    series_x)

\* ------------------------------------------------ MixtureModel.__init__
\* A component distribution is given by its var list, the prior by its
\* distribution_name, the length of its probs and its var list.  is_list
\* tells whether distributions is a list (isinstance(distributions, list)).
MixtureFailed(err) ==
    [status |-> "error", err |-> err, var |-> <<>>, hidden_var |-> <<>>,
     n_distributions |-> 0]

\* var_list: every component's var, one after the other.
RECURSIVE ConcatVars(_)
ConcatVars(distributions) ==
    IF distributions = <<>> THEN <<>>
    ELSE Head(distributions) \o ConcatVars(Tail(distributions))

\* MixtureModelInit with the number of the mixture checked before the prior.
MixtureModelInitSizeFirst(is_list, distributions, prior) ==
    LET var_set == Range(ConcatVars(distributions))
    IN IF ~is_list
       THEN MixtureFailed("InvalidArgument")
       ELSE IF prior.n_probs # Len(distributions)
       THEN MixtureFailed("MixtureSizeMismatch")
       ELSE IF prior.distribution_name # "Categorical"
       THEN MixtureFailed("InvalidPrior")
       ELSE IF Cardinality(var_set) # 1
       THEN MixtureFailed("HeterogeneousVariable")
       ELSE [status |-> "ok", err |-> "",
             var |-> <<CHOOSE v \in var_set : TRUE>>,
             hidden_var |-> prior.var,
             n_distributions |-> Len(distributions)]

MixtureModelInit(is_list, distributions, prior) ==
    LET var_set == Range(ConcatVars(distributions))
    IN IF ~is_list
       THEN MixtureFailed("InvalidArgument")
       ELSE IF prior.distribution_name # "Categorical"
       THEN MixtureFailed("InvalidPrior")
       ELSE IF prior.n_probs # Len(distributions)
       THEN MixtureFailed("MixtureSizeMismatch")
       ELSE IF Cardinality(var_set) # 1
       THEN MixtureFailed("HeterogeneousVariable")
       ELSE [status |-> "ok", err |-> "",
             var |-> <<CHOOSE v \in var_set : TRUE>>,
             hidden_var |-> prior.var,
             n_distributions |-> Len(distributions)]

\* ------------------------------------------------------------ the inputs
MaxIters == (0 - 1) .. MaxIter
InputVarArgs == {None, <<"u">>}
InitialVarArgs == {None, <<"w">>}
SeriesVarArgs == {None, <<>>, <<"x">>}

Entry(k, vals) == {EmptyDict} \cup {[n \in {k} |-> v] : v \in vals}

\* The dicts a caller passes to estimate: x absent, a scalar or a series,
\* h absent or a scalar.
Inputs ==
    {Update(a, b) :
        a \in Entry("x", {Scalar(3)} \cup {Series(n) : n \in 0..MaxSeriesLen}),
        b \in Entry("h", {Scalar(5)})}

ComponentVars == {<<>>, <<"x">>, <<"y">>, <<"x", "x">>, <<"x", "y">>}
PriorVars == {<<>>, <<"z">>, <<"z", "w">>}

RECURSIVE SeqsUpTo(_, _)
SeqsUpTo(S, n) ==
    IF n = 0 THEN {<<>>}
    ELSE SeqsUpTo(S, n - 1)
         \cup {Append(q, e) : q \in {r \in SeqsUpTo(S, n - 1) : Len(r) = n - 1},
                              e \in S}

\* ------------------------------------------------------------- the state
NoObj == [ARLossInit("none", "none", "default", 0, FALSE, None, None)
            EXCEPT !.cls = "none"]

NoCtor ==
    [status |-> "none", err |-> "", cls |-> "none",
     step_loss |-> "none", last_loss |-> "none", step_fn |-> "default",
     max_iter |-> 0, return_params |-> FALSE,
     input_var |-> None, initial_var |-> None, series_var |-> None]

NoRes ==
    [status |-> "none", err |-> "", loss |-> 0, pair |-> FALSE,
     state |-> EmptyDict, log |-> <<>>]

NoMix ==
    [status |-> "none", err |-> "", var |-> <<>>, hidden_var |-> <<>>,
     n_distributions |-> 0,
     is_list |-> TRUE, distributions |-> <<>>,
     prior |-> [distribution_name |-> "Categorical", n_probs |-> 0,
                var |-> <<>>]]

Init ==
    /\ ctor = NoCtor
    /\ obj = NoObj
    /\ arg0 = EmptyDict
    /\ arg = EmptyDict
    /\ res = NoRes
    /\ mix = NoMix

CtorCall(cls, step_loss, last_loss, step_fn, max_iter, return_params, input_var, initial_var, series_var, err) ==
    [status |-> IF err = "" THEN "ok" ELSE "error", err |-> err, cls |-> cls,
     step_loss |-> step_loss, last_loss |-> last_loss, step_fn |-> step_fn,
     max_iter |-> max_iter, return_params |-> return_params,
     input_var |-> input_var, initial_var |-> initial_var,
     series_var |-> series_var]

\* The model follows one object from its construction on: a constructor is
\* called once, estimate any number of times.
\*
\* ARLoss(step_loss, last_loss, step_fn, max_iter, return_params,
\*        input_var=..., initial_var=...)
ConstructARLoss ==
    /\ ctor.status = "none"
    /\ \E sl \in StepLosses, ll \in LastLosses, f \in StepFns,
          m \in MaxIters, rp \in BOOLEAN,
          iv \in InputVarArgs, nv \in InitialVarArgs :
          /\ ctor' = CtorCall("ARLoss", sl, ll, f, m, rp, iv, nv, None, "")
          /\ obj' = ARLossInit(sl, ll, f, m, rp, iv, nv)
    /\ UNCHANGED <<arg0, arg, res, mix>>

\* ARDRAWLoss(step_loss, last_loss, step_fn, max_iter, return_params,
\*            initial_var=..., input_var=...)
ConstructARDRAWLoss ==
    /\ ctor.status = "none"
    /\ \E sl \in StepLosses, ll \in LastLosses, f \in StepFns,
          m \in MaxIters, rp \in BOOLEAN,
          iv \in InputVarArgs, nv \in InitialVarArgs :
          /\ ctor' = CtorCall("ARDRAWLoss", sl, ll, f, m, rp, iv, nv, None, "")
          /\ obj' = ARDRAWLossInit(sl, ll, f, m, rp, nv, iv)
    /\ UNCHANGED <<arg0, arg, res, mix>>

\* ARSeriesLoss(step_loss, last_loss, step_fn, max_iter, return_params,
\*              series_var=..., input_var=...)
ConstructARSeriesLoss ==
    /\ ctor.status = "none"
    /\ \E sl \in StepLosses, ll \in LastLosses, f \in StepFns,
          m \in MaxIters, rp \in BOOLEAN,
          iv \in InputVarArgs, sv \in SeriesVarArgs :
          LET made == ARSeriesLossInit(sl, ll, f, m, rp, sv, iv)
          IN /\ ctor' = CtorCall("ARSeriesLoss", sl, ll, f, m, rp, iv, None,
                                 sv, made.err)
             /\ obj' = IF made.err = "" THEN made.obj ELSE obj
    /\ UNCHANGED <<arg0, arg, res, mix>>

Outcome(r) ==
    [status |-> r.status, err |-> r.err, loss |-> r.loss, pair |-> r.pair,
     state |-> r.state, log |-> r.log]

\* loss.estimate(x) on an ARDRAWLoss: x is a new dict, or the dict of the
\* call before.
DrawEstimate ==
    /\ obj.cls = "ARDRAWLoss"
    /\ \E x0 \in Inputs \cup {arg} :
          LET r == ARDRAWLossEstimate(obj, x0)
          IN /\ arg0' = x0
             /\ arg' = r.inp
             /\ res' = Outcome(r)
    /\ UNCHANGED <<ctor, obj, mix>>

\* loss.estimate(x) on an ARSeriesLoss.
SeriesEstimate ==
    /\ obj.cls = "ARSeriesLoss"
    /\ \E x0 \in Inputs \cup {arg} :
          LET r == ARSeriesLossEstimate(obj, x0)
          IN /\ arg0' = x0
             /\ arg' = r.inp
             /\ res' = Outcome(r)
    /\ UNCHANGED <<ctor, obj, mix>>

\* MixtureModel(distributions, prior)
ConstructMixture ==
    /\ mix.status = "none"
    /\ \E is_list \in BOOLEAN,
          distributions \in SeqsUpTo(ComponentVars, MaxK),
          dn \in {"Categorical", "Normal"},
          np \in 0 .. MaxK + 1,
          pv \in PriorVars :
          LET prior == [distribution_name |-> dn, n_probs |-> np, var |-> pv]
              made  == MixtureModelInit(is_list, distributions, prior)
          IN mix' = [status |-> made.status, err |-> made.err,
                     var |-> made.var, hidden_var |-> made.hidden_var,
                     n_distributions |-> made.n_distributions,
                     is_list |-> is_list, distributions |-> distributions,
                     prior |-> prior]
    /\ UNCHANGED <<ctor, obj, arg0, arg, res>>

Next ==
    \/ ConstructARLoss
    \/ ConstructARDRAWLoss
    \/ ConstructARSeriesLoss
    \/ DrawEstimate
    \/ SeriesEstimate

Spec == Init /\ [][Next]_vars

NextMix == ConstructMixture

SpecMix == Init /\ [][NextMix]_vars

\* =============================================================== claims
NIter(m) == IF m > 0 THEN m ELSE 0

Called == res.status # "none"

\* x_i of the DRAW variant: x_0 is the caller's input, x_(i+1) = step_fn(i, x_i).
RECURSIVE XAt(_, _, _)
XAt(f, x0, i) == IF i = 0 THEN x0 ELSE StepFn(f, i - 1, XAt(f, x0, i - 1))

\* step_loss.estimate(x_0) + ... + step_loss.estimate(x_(n-1))
RECURSIVE DrawStepSum(_, _, _)
DrawStepSum(o, x0, n) ==
    IF n = 0 THEN 0
    ELSE DrawStepSum(o, x0, n - 1)
         + LossEstimate(o.step_loss, XAt(o.step_fn, x0, n - 1))

\* C1: every ARDRAWLoss with both sub-losses present, for any max_iter,
\* returns; step_fn is called exactly max(max_iter, 0) times, with
\* i = 0, 1, ... in increasing order, each step loss sees the state before the
\* transition of the same index, the scalar returned is the sum of the step
\* losses at x_0 .. x_(n-1) plus the last loss at x_n, and with return_params
\* the result is the pair of it and x_n.
C1_DrawEstimate ==
    (Called /\ obj.cls = "ARDRAWLoss"
       /\ obj.step_loss # "none" /\ obj.last_loss # "none")
    => LET n == NIter(obj.max_iter)
           f == obj.step_fn
       IN /\ res.status = "ok"
          /\ Len(res.log) = 2 * n + 1
          /\ \A i \in 0 .. n - 1 :
                /\ res.log[2 * i + 1] = Call("step_loss", i, XAt(f, arg0, i))
                /\ res.log[2 * i + 2] = Call("step_fn", i, XAt(f, arg0, i))
          /\ res.log[2 * n + 1] = Call("last_loss", -1, XAt(f, arg0, n))
          /\ res.loss = DrawStepSum(obj, arg0, n)
                        + LossEstimate(obj.last_loss, XAt(f, arg0, n))
          /\ res.pair = obj.return_params
          /\ (res.pair => res.state = XAt(f, arg0, n))

\* The slice at index t of the series entries of the caller's input.
SliceAt(o, x0, t) ==
    [k \in Range(o.series_var) \cap DOMAIN x0 |-> Scalar(x0[k].v[t + 1])]

\* The caller's series entries are series long enough for the call: one
\* time step per iteration, and one for the last loss.
SeriesOK(o, x0) ==
    \A k \in Range(o.series_var) \cap DOMAIN x0 :
        /\ x0[k].d = 1
        /\ Len(x0[k].v) >= NIter(o.max_iter)
        /\ (o.last_loss # "none" => Len(x0[k].v) >= 1)

\* The state of the series variant after t transitions, each the call
\* step_fn(t, **state) on the state with the slice at t.
RECURSIVE YAt(_, _, _)
YAt(o, x0, t) ==
    IF t = 0 THEN x0
    ELSE SeriesCall(o.step_fn, t - 1,
                    Update(YAt(o, x0, t - 1), SliceAt(o, x0, t - 1))).x

RECURSIVE SeriesStepSum(_, _, _)
SeriesStepSum(o, x0, n) ==
    IF n = 0 THEN 0
    ELSE SeriesStepSum(o, x0, n - 1) + LossEstimate(o.step_loss, YAt(o, x0, n))

\* C2: every ARSeriesLoss with a step loss, on an input whose series have
\* the slices it reads, returns; for t = 0 .. max_iter-1 in order it
\* overwrites the series entries with their slice at t, replaces the state by
\* step_fn(t, state) and adds the step loss of the state after the
\* transition; then, with a last loss, it overwrites the series entries with
\* their slice at index 0 and adds the last loss of that state; the scalar
\* returned is that sum.
C2_SeriesEstimate ==
    (Called /\ obj.cls = "ARSeriesLoss" /\ obj.step_loss # "none"
       /\ SeriesOK(obj, arg0))
    => LET n    == NIter(obj.max_iter)
           last == Update(YAt(obj, arg0, n), SliceAt(obj, arg0, 0))
       IN /\ res.status = "ok"
          /\ \A t \in 0 .. n - 1 :
                /\ res.log[2 * t + 1] =
                      Call("step_fn", t,
                           Update(YAt(obj, arg0, t), SliceAt(obj, arg0, t)))
                /\ res.log[2 * t + 2] =
                      Call("step_loss", t, YAt(obj, arg0, t + 1))
          /\ IF obj.last_loss # "none"
             THEN /\ Len(res.log) = 2 * n + 1
                  /\ res.log[2 * n + 1] = Call("last_loss", -1, last)
                  /\ res.loss = SeriesStepSum(obj, arg0, n)
                                + LossEstimate(obj.last_loss, last)
             ELSE /\ Len(res.log) = 2 * n
                  /\ res.loss = SeriesStepSum(obj, arg0, n)

\* The four checks of the constructor, on its arguments.
IsSequence == mix.is_list
PriorIsCategorical == mix.prior.distribution_name = "Categorical"
SizesMatch == mix.prior.n_probs = Len(mix.distributions)
UnionOfVars ==
    UNION {Range(mix.distributions[i]) : i \in 1 .. Len(mix.distributions)}
OneVariable == Cardinality(UnionOfVars) = 1

FirstFailure ==
    IF ~IsSequence THEN "InvalidArgument"
    ELSE IF ~PriorIsCategorical THEN "InvalidPrior"
    ELSE IF ~SizesMatch THEN "MixtureSizeMismatch"
    ELSE IF ~OneVariable THEN "HeterogeneousVariable"
    ELSE ""

\* C3: the constructor of MixtureModel succeeds exactly when distributions
\* is a list, the prior is categorical, the prior has as many probs as there
\* are components and the union of the components' vars is one name; when
\* several checks fail the error is that of the first in this order; and K
\* components of one variable with a categorical prior succeed with K probs
\* and fail with MixtureSizeMismatch with K+1 or K-1.
C3_MixtureChecks ==
    mix.status # "none"
    => LET K == Len(mix.distributions)
       IN /\ (mix.status = "ok") <=>
                (IsSequence /\ PriorIsCategorical /\ SizesMatch /\ OneVariable)
          /\ mix.err = FirstFailure
          /\ (/\ IsSequence /\ PriorIsCategorical /\ K >= 1
              /\ \A i \in 1 .. K : mix.distributions[i] = <<"x">>)
             => /\ (mix.prior.n_probs = K => mix.status = "ok")
                /\ (mix.prior.n_probs \in {K - 1, K + 1}
                      => mix.err = "MixtureSizeMismatch")

\* A prior that is not categorical and has one probability too many, for
\* components of two variables: three checks fail, the first is reported.
C3_Witness ==
    /\ mix.status = "error" /\ mix.err = "InvalidPrior"
    /\ mix.is_list
    /\ mix.distributions = <<(<<"x">>), (<<"y">>)>>
    /\ mix.prior.n_probs = 3

\* C4: every MixtureModel the constructor lets through has a categorical
\* prior with exactly K probs, K components whose var list is exactly [var0]
\* for one name var0, and a prior that declares exactly one hidden variable.
C4_MixtureInvariants ==
    mix.status = "ok"
    => /\ PriorIsCategorical
       /\ SizesMatch
       /\ \E var0 \in {"x", "y"} :
             \A i \in 1 .. Len(mix.distributions) :
                mix.distributions[i] = <<var0>>
       /\ Len(mix.prior.var) = 1
       /\ Len(mix.hidden_var) = 1

\* C5: with return_params an ARSeriesLoss returns a pair whose state holds,
\* under every series name, the full series of the caller's input.
C5_SeriesRestored ==
    (Called /\ obj.cls = "ARSeriesLoss" /\ res.status = "ok"
       /\ obj.return_params)
    => /\ res.pair
       /\ \A k \in Range(obj.series_var) \cap DOMAIN arg0 :
             k \in DOMAIN res.state /\ res.state[k] = arg0[k]

\* Two steps of a transition that overwrites the series name, then the last
\* loss on the slice at index 0: the state returned holds the whole series.
C5_Witness ==
    /\ obj.cls = "ARSeriesLoss" /\ obj.return_params
    /\ obj.max_iter = 2 /\ obj.step_fn = "clobber"
    /\ obj.step_loss # "none" /\ obj.last_loss # "none"
    /\ obj.series_var = <<"x">>
    /\ arg0 = [k \in {"x"} |-> Series(3)]
    /\ res.status = "ok" /\ res.pair /\ res.state["x"] = Series(3)

\* C6: an AR loss constructed without an explicit input_var declares the
\* input_var of the last loss followed by that of the step loss, without
\* repeats, each name where it first stood.
C6_DerivedInputVar ==
    (ctor.status = "ok" /\ ctor.input_var = None)
    => LET all == (IF ctor.last_loss # "none"
                   THEN LossInputVar(ctor.last_loss) ELSE <<>>)
                  \o (IF ctor.step_loss # "none"
                      THEN LossInputVar(ctor.step_loss) ELSE <<>>)
           iv  == obj.input_var
       IN /\ Range(iv) = Range(all)
          /\ \A i, j \in 1 .. Len(iv) : i # j => iv[i] # iv[j]
          /\ \A i, j \in 1 .. Len(iv) :
                i < j =>
                   (CHOOSE p \in 1 .. Len(all) :
                       all[p] = iv[i] /\ \A q \in 1 .. p - 1 : all[q] # iv[i])
                   < (CHOOSE p \in 1 .. Len(all) :
                       all[p] = iv[j] /\ \A q \in 1 .. p - 1 : all[q] # iv[j])

\* C7: estimate leaves the caller's input dict with the keys and values it
\* had before the call.
C7_InputUntouched ==
    Called => arg = arg0

\* C8: with the step loss absent and the last loss present, estimate of
\* both variants completes for every max_iter and returns the last-loss term
\* alone.
C8_NoStepLoss ==
    (Called /\ obj.cls \in {"ARDRAWLoss", "ARSeriesLoss"}
       /\ obj.step_loss = "none" /\ obj.last_loss # "none"
       /\ (obj.cls = "ARSeriesLoss" => SeriesOK(obj, arg0)))
    => /\ res.status = "ok"
       /\ res.loss \in {LossEstimate(obj.last_loss, x) :
                          x \in {XAt(obj.step_fn, arg0, NIter(obj.max_iter)),
                                 arg0,
                                 Update(arg0, IF obj.cls = "ARSeriesLoss"
                                              THEN SliceAt(obj, arg0, 0)
                                              ELSE EmptyDict)}}

\* C9: an ARDRAWLoss without a last loss is constructed without error, every
\* estimate call on it ends in an error, raised after the max_iter step
\* losses and transitions have all been made; an ARSeriesLoss without a last
\* loss returns the sum of its step losses.
C9_NoLastLoss ==
    /\ (ctor.status # "none" /\ ctor.cls = "ARDRAWLoss"
          /\ ctor.last_loss = "none")
       => ctor.status = "ok" /\ obj.cls = "ARDRAWLoss"
                             /\ obj.last_loss = "none"
    /\ (Called /\ obj.cls = "ARDRAWLoss" /\ obj.last_loss = "none")
       => LET n == NIter(obj.max_iter)
          IN /\ res.status = "error" /\ ~res.pair
             /\ Len(res.log) = 2 * n
             /\ \A i \in 0 .. n - 1 :
                   /\ res.log[2 * i + 1].op = "step_loss"
                   /\ res.log[2 * i + 1].i = i
                   /\ res.log[2 * i + 2].op = "step_fn"
                   /\ res.log[2 * i + 2].i = i
    /\ (Called /\ obj.cls = "ARSeriesLoss" /\ obj.last_loss = "none"
          /\ obj.step_loss # "none" /\ SeriesOK(obj, arg0))
       => /\ res.status = "ok"
          /\ res.loss = SeriesStepSum(obj, arg0, NIter(obj.max_iter))

\* C10: an input_var given to the constructor is the declared input_var,
\* and an initial_var never is.
C10_ExplicitInputVar ==
    ctor.status = "ok"
    => /\ (ctor.input_var # None => obj.input_var = ctor.input_var)
       /\ (ctor.initial_var # None => obj.input_var # ctor.initial_var)

====
